---------------------------- MODULE Spec2Model ----------------------------
(***************************************************************************)
(* Model of rust_e2e: the capability-gated KeyPair (src/src/crypto.rs and  *)
(* src/src/client/crypto.rs, which hold the same logic; the first has the  *)
(* typed errors, the second reports them through anyhow), the User/Friend  *)
(* identity layer and the create_message / receive_message protocol        *)
(* (src/src/client/user.rs, src/src/client/friend.rs, src/src/user.rs,     *)
(* src/src/friend.rs).                                                     *)
(*                                                                         *)
(* Strings and byte buffers are records tagged by field k:                 *)
(*   "txt"       a concrete text, s its bytes (ASCII codes)                *)
(*   "sha256hex" the 64 hexadecimal characters of the SHA-256 of `of`      *)
(*   "rsa"       one RSA block of KeySize bytes: PKCS#1 v1.5 block type    *)
(*               `pad` (2: public_encrypt, 1: private_encrypt) of `data`   *)
(*               under key material `key`; `nonce` is the random padding   *)
(*   "b64"       the padding-free base-64 text of the bytes `of`           *)
(*   "pem"       the PEM text of the public key of material `key`          *)
(*   "zpad"      the bytes `of` followed by `zeros` NUL bytes              *)
(*   "raw"       the bytes a text decodes to as base-64                    *)
(*   "json"      a serialized FriendJson record                            *)
(* The hash is collision free.  public_decrypt opens only a type-1 block of *)
(* its key.  private_decrypt opens a type-2 block of its key; on any other  *)
(* input of fitting size it fails, or (OpenSSL builds with PKCS#1 v1.5      *)
(* implicit rejection) hands back pseudo-random bytes.  The repository pins *)
(* no OpenSSL version, so the model draws among both.                       *)
(***************************************************************************)
EXTENDS Integers, Sequences, FiniteSets, TLC

VARIABLES cur, klast, users, wire, last,
          pc, queue, senders, enq, outgoing, written, peer, script, inbound,
          readbuf, got, handled, result, seen,
          book, shown

kvars == <<cur, klast>>
uvars == <<users, wire, last>>
rvars == <<pc, queue, senders, enq, outgoing, written, peer, script, inbound,
           readbuf, got, handled, result, seen>>
hvars == <<book, shown>>
vars == <<kvars, uvars, rvars, hvars>>

(***************************************************************************)
(* Bounds of the model.                                                    *)
(***************************************************************************)
MaxLen == 2
MaxKeys == 2
MaxNonce == 2
MaxQueue == 2
MaxHist == 4
MaxTime == 3
MaxFriends == 3
NUsers == 2

(***************************************************************************)
(* Program constants.                                                      *)
(***************************************************************************)
KeyBits == 4096
PKCS1Overhead == 11
DigestHexLen == 64

KeySize == KeyBits \div 8

None == 0
KeyIds == 1..MaxKeys
Nonces == 1..MaxNonce

NUL == 0
SP == 32
Alphabet == {NUL, SP, 97, 98}

Min(S) == CHOOSE x \in S : \A y \in S : x <= y
Max(S) == CHOOSE x \in S : \A y \in S : x >= y

Zeros(n) == [i \in 1..n |-> 0]

Txt(s) == [k |-> "txt", s |-> s]
NoVal == [k |-> "none"]

Ok(v) == [ok |-> TRUE, val |-> v, err |-> ""]
Err(e) == [ok |-> FALSE, val |-> NoVal, err |-> e]

(***************************************************************************)
(* Lengths in bytes.                                                       *)
(***************************************************************************)
B64Len(n) == (4 * n + 2) \div 3

RECURSIVE ByteLen(_)
ByteLen(v) ==
    CASE v.k = "txt" -> Len(v.s)
      [] v.k = "sha256hex" -> DigestHexLen
      [] v.k = "rsa" -> KeySize
      [] v.k = "b64" -> B64Len(ByteLen(v.of))
      [] v.k = "zpad" -> ByteLen(v.of) + v.zeros
      [] v.k = "raw" -> (3 * ByteLen(v.of)) \div 4

(***************************************************************************)
(* sha256::digest: the hexadecimal digest of a text.                       *)
(***************************************************************************)
digest(msg) == [k |-> "sha256hex", of |-> msg]

(***************************************************************************)
(* base64 STANDARD_NO_PAD.                                                 *)
(***************************************************************************)
b64_encode(bytes) == [k |-> "b64", of |-> bytes]

B64Val(c) ==
    CASE c \in 65..90 -> c - 65
      [] c \in 97..122 -> c - 71
      [] c \in 48..57 -> c + 4
      [] c = 43 -> 62
      [] c = 47 -> 63
      [] OTHER -> -1

b64_decode(text) ==
    CASE text.k = "b64" -> Ok(text.of)
      [] text.k = "txt" ->
            LET s == text.s
                n == Len(s)
            IN  IF \E i \in 1..n : B64Val(s[i]) < 0 THEN Err("Base64Error")
                ELSE IF n % 4 = 1 THEN Err("Base64Error")
                ELSE IF n % 4 = 2 /\ B64Val(s[n]) % 16 # 0 THEN Err("Base64Error")
                ELSE IF n % 4 = 3 /\ B64Val(s[n]) % 4 # 0 THEN Err("Base64Error")
                ELSE Ok([k |-> "raw", of |-> text])
      \* 64 hexadecimal digits: base-64 symbols all, and 64 % 4 = 0
      [] text.k = "sha256hex" -> Ok([k |-> "raw", of |-> text])
      \* PEM and JSON text hold symbols outside the base-64 alphabet
      [] OTHER -> Err("Base64Error")

(***************************************************************************)
(* openssl Rsa with Padding::PKCS1.  The input of the *_encrypt calls may  *)
(* hold at most KeySize - PKCS1Overhead bytes.                             *)
(***************************************************************************)
RsaBlock(pad, key, data, nonce) ==
    [k |-> "rsa", pad |-> pad, key |-> key, data |-> data, nonce |-> nonce]

public_encrypt(key, data, nonce) ==
    IF ByteLen(data) > KeySize - PKCS1Overhead THEN Err("OpenSSLError")
    ELSE Ok(RsaBlock(2, key, data, nonce))

private_encrypt(key, data) ==
    IF ByteLen(data) > KeySize - PKCS1Overhead THEN Err("OpenSSLError")
    ELSE Ok(RsaBlock(1, key, data, 0))

(* What private_decrypt draws for an input that is no type-2 block of its  *)
(* key: fails, whether the call fails (the padding check of a build        *)
(* without implicit rejection, or an input that read as a number is not    *)
(* below the modulus), and s, the pseudo-random bytes a build with         *)
(* implicit rejection writes otherwise.                                    *)
Reject(fails, s) == [k |-> "reject", fails |-> fails, s |-> s]

(* A type-2 block of the key gives its data.  Empty input and input longer *)
(* than the modulus fail on every build.  Everything else fails or         *)
(* succeeds with the bytes of the rejection, as drawn.                     *)
private_decrypt(key, from, reject) ==
    IF from.k = "rsa" /\ from.pad = 2 /\ from.key = key THEN Ok(from.data)
    ELSE IF ByteLen(from) = 0 \/ ByteLen(from) > KeySize THEN Err("OpenSSLError")
    ELSE IF reject.fails THEN Err("OpenSSLError")
    ELSE Ok(Txt(reject.s))

(* A type-1 block of the key gives its data; there is no implicit          *)
(* rejection for this padding check.                                       *)
public_decrypt(key, from) ==
    IF from.k = "rsa" /\ from.pad = 1 /\ from.key = key THEN Ok(from.data)
    ELSE Err("OpenSSLError")

(***************************************************************************)
(* vec![0; key.size()] after a *_decrypt call has written `data` at its    *)
(* start: the data followed by the untouched zero bytes.                   *)
(***************************************************************************)
FillBuf(data) ==
    LET z == KeySize - ByteLen(data)
    IN  IF data.k = "txt" THEN Txt(data.s \o Zeros(z))
        ELSE IF z = 0 THEN data
        ELSE [k |-> "zpad", of |-> data, zeros |-> z]

(* The length of the UTF-8 sequence that starts at s[i]; 0 when none does. *)
Utf8Len(s, i) ==
    LET n == Len(s)
        b == s[i]
        In(j, lo, hi) == j <= n /\ s[j] >= lo /\ s[j] <= hi
        Cont(j) == In(j, 128, 191)
    IN  CASE b < 128 -> 1
          [] b \in 194..223 -> IF Cont(i + 1) THEN 2 ELSE 0
          [] b = 224 -> IF In(i + 1, 160, 191) /\ Cont(i + 2) THEN 3 ELSE 0
          [] b \in 225..236 -> IF Cont(i + 1) /\ Cont(i + 2) THEN 3 ELSE 0
          [] b = 237 -> IF In(i + 1, 128, 159) /\ Cont(i + 2) THEN 3 ELSE 0
          [] b \in 238..239 -> IF Cont(i + 1) /\ Cont(i + 2) THEN 3 ELSE 0
          [] b = 240 ->
                IF In(i + 1, 144, 191) /\ Cont(i + 2) /\ Cont(i + 3) THEN 4 ELSE 0
          [] b \in 241..243 ->
                IF Cont(i + 1) /\ Cont(i + 2) /\ Cont(i + 3) THEN 4 ELSE 0
          [] b = 244 ->
                IF In(i + 1, 128, 143) /\ Cont(i + 2) /\ Cont(i + 3) THEN 4 ELSE 0
          [] OTHER -> 0

(* Whether the bytes s are UTF-8: every byte that is not a continuation    *)
(* byte starts a sequence, and every continuation byte lies in the         *)
(* sequence of a start at most three bytes before it.                      *)
ValidUtf8(s) ==
    \A i \in 1..Len(s) :
        IF s[i] \in 128..191
        THEN \E d \in 1..3 :
                i - d >= 1 /\ s[i - d] \notin 128..191 /\ Utf8Len(s, i - d) > d
        ELSE Utf8Len(s, i) > 0

(* String::from_utf8 on a byte buffer. *)
from_utf8(buf) ==
    CASE buf.k = "txt" -> IF ValidUtf8(buf.s) THEN Ok(buf) ELSE Err("Utf8Error")
      [] buf.k = "zpad" ->
            IF buf.of.k = "txt" /\ ~ValidUtf8(buf.of.s) THEN Err("Utf8Error")
            ELSE Ok(buf)
      \* a digest: hexadecimal digits
      [] OTHER -> Ok(buf)

(* The characters with the Unicode White_Space property, in UTF-8:         *)
(* U+0009..U+000D, U+0020, U+0085, U+00A0, U+1680, U+2000..U+200A, U+2028, *)
(* U+2029, U+202F, U+205F, U+3000.                                         *)
WhiteSpace ==
    {<<c>> : c \in 9..13} \cup {<<SP>>, <<194, 133>>, <<194, 160>>, <<225, 154, 128>>}
        \cup {<<226, 128, c>> : c \in 128..138}
        \cup {<<226, 128, 168>>, <<226, 128, 169>>, <<226, 128, 175>>,
              <<226, 129, 159>>, <<227, 128, 128>>}

(* char::is_whitespace of the character that starts at s[i]. *)
IsWhitespace(s, i) == SubSeq(s, i, i + Utf8Len(s, i) - 1) \in WhiteSpace

(* str::trim: leading and trailing whitespace characters removed. *)
trim(s) ==
    LET starts == {i \in 1..Len(s) : s[i] \notin 128..191}
        keep == {i \in starts : ~IsWhitespace(s, i)}
    IN  IF keep = {} THEN <<>>
        ELSE SubSeq(s, Min(keep), Max(keep) + Utf8Len(s, Max(keep)) - 1)


(***************************************************************************)
(* KeyPair { public, private, mode }.  public and private hold the id of   *)
(* the key material, or None.                                              *)
(***************************************************************************)
Modes == {"Encrypt", "EncryptDecrypt", "Verify", "VerifySign"}

KeyPair(public, private, mode) ==
    [public |-> public, private |-> private, mode |-> mode]

NoKeyPair == KeyPair(None, None, "NoKeyPair")

Gate(key) == [ok |-> TRUE, key |-> key, err |-> ""]
GateErr(e) == [ok |-> FALSE, key |-> None, err |-> e]

(* Option::unwrap: the material, or a panic when there is none. *)
unwrap(opt) == IF opt = None THEN GateErr("Panic") ELSE Gate(opt)

can_encrypt(kp) ==
    IF kp.mode \in {"Encrypt", "EncryptDecrypt"} THEN unwrap(kp.public)
    ELSE GateErr("ModeError")

can_decrypt_loose(kp) ==
    IF kp.mode \in {"Encrypt", "EncryptDecrypt"} THEN unwrap(kp.private)
    ELSE GateErr("ModeError")

can_decrypt(kp) ==
    IF kp.mode = "EncryptDecrypt" THEN unwrap(kp.private)
    ELSE GateErr("ModeError")

can_sign(kp) ==
    IF kp.mode = "VerifySign" THEN unwrap(kp.private)
    ELSE GateErr("ModeError")

can_verify(kp) ==
    IF kp.mode \in {"VerifySign", "Verify"} THEN unwrap(kp.public)
    ELSE GateErr("ModeError")

(* nonce: the random bytes public_encrypt pads the message with. *)
encrypt(kp, msg, nonce) ==
    LET key == can_encrypt(kp)
    IN  IF ~key.ok THEN Err(key.err)
        ELSE LET buf == public_encrypt(key.key, msg, nonce)
             IN  IF ~buf.ok THEN buf
                 ELSE Ok(b64_encode(buf.val))

(* The number of trailing zero bytes of buf, found as the loop finds it:  *)
(* the index, counted from the end, of the last non-zero byte; 0 when the *)
(* loop ends without finding one.                                          *)
trailing_index(buf) ==
    LET nz == {i \in 0..(Len(buf) - 1) : buf[Len(buf) - i] # 0}
    IN  IF nz = {} THEN 0 ELSE Min(nz)

(* reject: what private_decrypt draws when enc_msg is no block of the key. *)
decrypt(kp, enc_msg_str, reject) ==
    LET key == can_decrypt(kp)
    IN  IF ~key.ok THEN Err(key.err)
        ELSE LET enc_msg == b64_decode(enc_msg_str)
             IN  IF ~enc_msg.ok THEN enc_msg
                 ELSE LET dec == private_decrypt(key.key, enc_msg.val, reject)
                      IN  IF ~dec.ok THEN dec
                          ELSE LET buf == FillBuf(dec.val).s
                                   cut == SubSeq(buf, 1, Len(buf) - trailing_index(buf))
                                   decrypted_str == from_utf8(Txt(cut))
                               IN  IF ~decrypted_str.ok THEN decrypted_str
                                   ELSE Ok(Txt(trim(decrypted_str.val.s)))

sign(kp, msg) ==
    LET key == can_sign(kp)
    IN  IF ~key.ok THEN Err(key.err)
        ELSE LET hash_msg == digest(msg)
                 buf == private_encrypt(key.key, hash_msg)
             IN  IF ~buf.ok THEN buf
                 ELSE Ok(b64_encode(buf.val))

(* A verify that accepts whatever the public key opens, without comparing *)
(* it to the digest.                                                       *)
verify_nocompare(kp, msg, sig) ==
    LET key == can_verify(kp)
    IN  IF ~key.ok THEN Err(key.err)
        ELSE LET s == b64_decode(sig)
             IN  IF ~s.ok THEN s
                 ELSE LET rec == public_decrypt(key.key, s.val)
                      IN  IF ~rec.ok THEN rec ELSE Ok(NoVal)

(* A verify that opens the signature and compares what it holds to the    *)
(* digest of msg.                                                          *)
verify_sig(kp, msg, sig) ==
    LET key == can_verify(kp)
    IN  IF ~key.ok THEN Err(key.err)
        ELSE LET s == b64_decode(sig)
             IN  IF ~s.ok THEN s
                 ELSE LET rec == public_decrypt(key.key, s.val)
                      IN  IF ~rec.ok THEN rec
                          ELSE IF rec.val = digest(msg) THEN Ok(NoVal)
                          ELSE Err("VerifyError")

(* The public key is applied to the bytes of msg; sig is not read.  The   *)
(* whole buffer, zero bytes included, is made a String and compared to    *)
(* the digest.                                                             *)
verify(kp, msg, sig) ==
    LET key == can_verify(kp)
    IN  IF ~key.ok THEN Err(key.err)
        ELSE LET hash_msg == digest(msg)
                 rec == public_decrypt(key.key, msg)
             IN  IF ~rec.ok THEN rec
                 ELSE LET buf == from_utf8(FillBuf(rec.val))
                      IN  IF ~buf.ok THEN buf
                          ELSE IF hash_msg = buf.val THEN Ok(NoVal)
                          ELSE Err("VerifyError")

(* material: the key Rsa::generate draws. *)
generate(mode, material) == Ok(KeyPair(material, material, mode))

to_public_keep(kp) ==
    LET key == can_encrypt(kp)
    IN  IF ~key.ok THEN Err(key.err)
        ELSE Ok(KeyPair(key.key, kp.private, "Encrypt"))

to_public(kp) ==
    LET key == can_encrypt(kp)
    IN  IF ~key.ok THEN Err(key.err)
        ELSE Ok(KeyPair(key.key, None, "Encrypt"))

to_verify(kp) ==
    LET key == can_verify(kp)
    IN  IF ~key.ok THEN Err(key.err)
        ELSE Ok(KeyPair(key.key, None, "Verify"))

Pem(key) == [k |-> "pem", key |-> key]

pub_key_pem(kp) ==
    IF kp.public = None THEN Err("NoKeyError")
    ELSE Ok(b64_encode(Pem(kp.public)))

(* Rsa::public_key_from_pem reads PEM text. *)
public_key_from_pem(bytes) ==
    IF bytes.k = "pem" THEN Gate(bytes.key) ELSE GateErr("OpenSSLError")

from_pub_pem(msg, mode) ==
    IF mode = "EncryptDecrypt" THEN Err("ModeError")
    ELSE IF mode = "VerifySign" THEN Err("ModeError")
    ELSE LET key == public_key_from_pem(msg)
         IN  IF ~key.ok THEN Err(key.err)
             ELSE Ok(KeyPair(key.key, None, mode))

(***************************************************************************)
(* Inputs of the KeyPair operations.                                       *)
(***************************************************************************)
SeqsUpTo(n) == UNION {[1..m -> Alphabet] : m \in 0..n}

(* One byte more than PKCS#1 padding leaves room for. *)
LongPlain == Txt([i \in 1..(KeySize - PKCS1Overhead + 1) |-> 97])

(* U+00A0, a whitespace character outside ASCII, before a letter. *)
NbspPlain == Txt(<<194, 160, 97>>)

Plaintexts == {Txt(s) : s \in SeqsUpTo(MaxLen)} \cup {LongPlain, NbspPlain}

(* No trailing whitespace character and no trailing NUL byte. *)
NoTrailing(p) ==
    LET s == p.s
        starts == {i \in 1..Len(s) : s[i] \notin 128..191}
    IN  Len(s) = 0 \/ (~IsWhitespace(s, Max(starts)) /\ s[Len(s)] # NUL)

InBound(p) == ByteLen(p) <= KeySize - PKCS1Overhead

FullEncKeys == {KeyPair(m, m, "EncryptDecrypt") : m \in KeyIds}
FullSigKeys == {KeyPair(m, m, "VerifySign") : m \in KeyIds}
PubEncKeys == {KeyPair(m, None, "Encrypt") : m \in KeyIds}

Ciphertexts(encryptors) ==
    {encrypt(e, p, r).val : e \in encryptors,
                            p \in {q \in Plaintexts : InBound(q)}, r \in Nonces}

(* Bytes that are not UTF-8.  encrypt and sign take a &str and never hold  *)
(* them, but whoever has the key can make a block of them.                 *)
NotUtf8 == Txt(<<255, 254, 65>>)

(* Ciphertexts made without encrypt: a block of bytes that are not UTF-8.  *)
ForgedCiphertexts ==
    {b64_encode(public_encrypt(m, NotUtf8, 1).val) : m \in KeyIds}

DecryptInputs ==
    Ciphertexts(FullEncKeys \cup PubEncKeys) \cup ForgedCiphertexts
        \cup {Txt(<<>>), Txt(<<97>>), digest(Txt(<<97>>))}

(* What private_decrypt may draw: a failure; bytes that are not UTF-8;     *)
(* bytes that are; no bytes at all.                                        *)
Rejections ==
    {Reject(TRUE, <<255>>), Reject(FALSE, <<255>>), Reject(FALSE, <<120>>),
     Reject(FALSE, <<>>)}

BaseMsgs ==
    {Txt(<<97>>), Txt(<<98>>), encrypt(KeyPair(1, None, "Encrypt"), Txt(<<97>>), 1).val}

(* The bytes of a signature taken as a text (they can be valid UTF-8). *)
RawSig(K, m) == b64_decode(sign(K, m).val).val

(* The bytes of a type-1 block over bytes that are not UTF-8, as a text. *)
ForgedSigs == {private_encrypt(m, NotUtf8).val : m \in KeyIds}

VerifyMsgs ==
    BaseMsgs \cup {RawSig(K, m) : K \in FullSigKeys, m \in BaseMsgs} \cup ForgedSigs

Signatures == {sign(K, m).val : K \in FullSigKeys, m \in VerifyMsgs} \cup {Txt(<<>>)}

PemTexts ==
    {Pem(m) : m \in KeyIds} \cup {b64_encode(Pem(m)) : m \in KeyIds} \cup {Txt(<<97>>)}

(***************************************************************************)
(* The KeyPair machine: cur is the KeyPair at hand, obtained by a sequence *)
(* of constructors and derivations; klast is the last call and its result. *)
(***************************************************************************)
KCall(op, key, mode, a1, a2, res) ==
    [op |-> op, key |-> key, mode |-> mode, a1 |-> a1, a2 |-> a2, res |-> res]

NoKCall == KCall("none", NoKeyPair, "", NoVal, NoVal, Err(""))

KInit ==
    /\ cur = NoKeyPair
    /\ klast = NoKCall

Generate ==
    \E mode \in Modes, material \in KeyIds :
        LET res == generate(mode, material)
        IN  /\ klast = NoKCall
            /\ UNCHANGED <<uvars, rvars, hvars>>
            /\ cur' = res.val
            /\ klast' = KCall("generate", NoKeyPair, mode, NoVal, NoVal, res)

FromPubPem ==
    \E msg \in PemTexts, mode \in Modes :
        LET res == from_pub_pem(msg, mode)
        IN  /\ klast = NoKCall
            /\ UNCHANGED <<uvars, rvars, hvars>>
            /\ cur' = IF res.ok THEN res.val ELSE cur
            /\ klast' = KCall("from_pub_pem", NoKeyPair, mode, msg, NoVal, res)

ToPublic ==
    /\ cur # NoKeyPair
    /\ klast = NoKCall
    /\ UNCHANGED <<uvars, rvars, hvars>>
    /\ LET res == to_public(cur)
       IN  /\ cur' = IF res.ok THEN res.val ELSE cur
           /\ klast' = KCall("to_public", cur, "", NoVal, NoVal, res)

ToVerify ==
    /\ cur # NoKeyPair
    /\ klast = NoKCall
    /\ UNCHANGED <<uvars, rvars, hvars>>
    /\ LET res == to_verify(cur)
       IN  /\ cur' = IF res.ok THEN res.val ELSE cur
           /\ klast' = KCall("to_verify", cur, "", NoVal, NoVal, res)

PubKeyPem ==
    /\ cur # NoKeyPair
    /\ klast = NoKCall
    /\ UNCHANGED <<uvars, rvars, hvars>>
    /\ klast' = KCall("pub_key_pem", cur, "", NoVal, NoVal, pub_key_pem(cur))
    /\ UNCHANGED cur

Encrypt ==
    /\ cur # NoKeyPair
    /\ klast = NoKCall
    /\ UNCHANGED <<uvars, rvars, hvars>>
    /\ \E msg \in Plaintexts, nonce \in Nonces :
        klast' = KCall("encrypt", cur, "", msg, NoVal, encrypt(cur, msg, nonce))
    /\ UNCHANGED cur

Decrypt ==
    /\ cur # NoKeyPair
    /\ klast = NoKCall
    /\ UNCHANGED <<uvars, rvars, hvars>>
    /\ \E enc_msg_str \in DecryptInputs, reject \in Rejections :
        klast' = KCall("decrypt", cur, "", enc_msg_str, reject,
                       decrypt(cur, enc_msg_str, reject))
    /\ UNCHANGED cur

Sign ==
    /\ cur # NoKeyPair
    /\ klast = NoKCall
    /\ UNCHANGED <<uvars, rvars, hvars>>
    /\ \E msg \in VerifyMsgs :
        klast' = KCall("sign", cur, "", msg, NoVal, sign(cur, msg))
    /\ UNCHANGED cur

Verify ==
    /\ cur # NoKeyPair
    /\ klast = NoKCall
    /\ UNCHANGED <<uvars, rvars, hvars>>
    /\ \E msg \in VerifyMsgs, sig \in Signatures :
        klast' = KCall("verify", cur, "", msg, sig, verify(cur, msg, sig))
    /\ UNCHANGED cur

(* The caller takes the result; the next call can be made. *)
KReturn ==
    /\ klast # NoKCall
    /\ klast' = NoKCall
    /\ UNCHANGED <<cur, users, wire, last, rvars, hvars>>

KeyPairNext ==
    \/ Generate
    \/ FromPubPem
    \/ ToPublic
    \/ ToVerify
    \/ PubKeyPem
    \/ Encrypt
    \/ Decrypt
    \/ Sign
    \/ Verify
    \/ KReturn

(***************************************************************************)
(* Friend, User, Message, EncryptedMessage (src/src/client).  Identifiers  *)
(* (uuid strings) are numbers, 0 the empty string; a HashMap is a function *)
(* on the set of its keys.                                                 *)
(***************************************************************************)
EmptyId == 0

Friend(id, nickname, enc_key, sig_key, messages) ==
    [id |-> id, nickname |-> nickname, enc_key |-> enc_key, sig_key |-> sig_key,
     messages |-> messages]

User(id, nickname, enc_key, sig_key, friends) ==
    [id |-> id, nickname |-> nickname, enc_key |-> enc_key, sig_key |-> sig_key,
     friends |-> friends]

EncryptedMessage(id, source_id, target_id, enc_content, created_at, sig) ==
    [id |-> id, source_id |-> source_id, target_id |-> target_id,
     enc_content |-> enc_content, created_at |-> created_at, sig |-> sig]

Message(id, source_id, target_id, content, created_at) ==
    [id |-> id, source_id |-> source_id, target_id |-> target_id,
     content |-> content, created_at |-> created_at]

EmptyMap == [x \in {} |-> NoVal]

(* The outcome of a &mut self method: its result and the object after it. *)
Outcome(res, user) == [res |-> res, user |-> user]

Friend_encrypt(friend, msg, nonce) == encrypt(friend.enc_key, msg, nonce)

Friend_verify(friend, msg) == verify(friend.sig_key, msg.enc_content, msg.sig)

FriendJson(id, nickname, pub_key, ver_key) ==
    [k |-> "json", id |-> id, nickname |-> nickname, pub_key |-> pub_key,
     ver_key |-> ver_key]

Friend_to_string(friend) ==
    LET pub_key == pub_key_pem(friend.enc_key)
        ver_key == pub_key_pem(friend.sig_key)
    IN  IF ~pub_key.ok THEN pub_key
        ELSE IF ~ver_key.ok THEN ver_key
        ELSE Ok(b64_encode(FriendJson(friend.id, friend.nickname,
                                      pub_key.val, ver_key.val)))

Friend_from_string(msg) ==
    LET decoded_msg == b64_decode(msg)
    IN  IF ~decoded_msg.ok THEN decoded_msg
        ELSE IF decoded_msg.val.k # "json" THEN Err("JsonError")
        ELSE LET friendJson == decoded_msg.val
             IN  IF friendJson.id = EmptyId THEN Err("InvalidShareString")
                 ELSE LET enc_key == from_pub_pem(friendJson.pub_key, "Encrypt")
                          sig_key == from_pub_pem(friendJson.ver_key, "Verify")
                      IN  IF ~enc_key.ok THEN enc_key
                          ELSE IF ~sig_key.ok THEN sig_key
                          ELSE Ok(Friend(friendJson.id, friendJson.nickname,
                                         enc_key.val, sig_key.val, <<>>))

Friend_add_message(friend, message) ==
    [friend EXCEPT !.messages = Append(@, message)]

(* uuid, m_enc, m_sig: the random identifier and key materials drawn. *)
User_new(nickname, uuid, m_enc, m_sig) ==
    LET enc_key == generate("EncryptDecrypt", m_enc)
        sig_key == generate("VerifySign", m_sig)
    IN  Ok(User(uuid, nickname, enc_key.val, sig_key.val, EmptyMap))

add_friend_replace(user, friend) ==
    IF friend.id \in DOMAIN user.friends
    THEN Outcome(Err("DuplicateFriend"),
                 [user EXCEPT !.friends = [@ EXCEPT ![friend.id] = friend]])
    ELSE Outcome(Ok(NoVal), [user EXCEPT !.friends = @ @@ (friend.id :> friend)])

add_friend(user, friend) ==
    IF friend.id \in DOMAIN user.friends
    THEN Outcome(Err("DuplicateFriend"), user)
    ELSE Outcome(Ok(NoVal), [user EXCEPT !.friends = @ @@ (friend.id :> friend)])

(* A create_message that signs the plaintext instead of the ciphertext. *)
create_message_signplain(user, friend_id, msg, nonce, uuid, now) ==
    IF friend_id \notin DOMAIN user.friends THEN Err("NoSuchFriend")
    ELSE LET friend == user.friends[friend_id]
             enc_msg == Friend_encrypt(friend, msg, nonce)
         IN  IF ~enc_msg.ok THEN enc_msg
             ELSE LET msg_sig == sign(user.sig_key, msg)
                  IN  IF ~msg_sig.ok THEN msg_sig
                      ELSE Ok(EncryptedMessage(uuid, user.id, friend_id,
                                               enc_msg.val, now, msg_sig.val))

(* nonce, uuid, now: the random padding, the random message id and the    *)
(* clock reading.                                                          *)
create_message(user, friend_id, msg, nonce, uuid, now) ==
    IF friend_id \notin DOMAIN user.friends THEN Err("NoSuchFriend")
    ELSE LET friend == user.friends[friend_id]
             enc_msg == Friend_encrypt(friend, msg, nonce)
         IN  IF ~enc_msg.ok THEN enc_msg
             ELSE LET msg_sig == sign(user.sig_key, enc_msg.val)
                  IN  IF ~msg_sig.ok THEN msg_sig
                      ELSE Ok(EncryptedMessage(uuid, user.id, friend_id,
                                               enc_msg.val, now, msg_sig.val))

receive_message_anytarget(user, enc_msg, reject) ==
    IF enc_msg.source_id \notin DOMAIN user.friends
    THEN Outcome(Err("NoSuchFriend"), user)
    ELSE LET friend == user.friends[enc_msg.source_id]
             ver == Friend_verify(friend, enc_msg)
         IN  IF ~ver.ok THEN Outcome(ver, user)
             ELSE LET msg == decrypt(user.enc_key, enc_msg.enc_content, reject)
                  IN  IF ~msg.ok THEN Outcome(msg, user)
                      ELSE LET message == Message(enc_msg.id, enc_msg.source_id,
                                                  enc_msg.target_id, msg.val,
                                                  enc_msg.created_at)
                           IN  Outcome(Ok(NoVal),
                                   [user EXCEPT !.friends[enc_msg.source_id] =
                                        Friend_add_message(friend, message)])

(* A receive_message that decrypts before it verifies. *)
receive_message_decryptfirst(user, enc_msg, reject) ==
    IF enc_msg.target_id # user.id
    THEN Outcome(Err("UnknownMessage"), user)
    ELSE IF enc_msg.source_id \notin DOMAIN user.friends
    THEN Outcome(Err("NoSuchFriend"), user)
    ELSE LET friend == user.friends[enc_msg.source_id]
             msg == decrypt(user.enc_key, enc_msg.enc_content, reject)
         IN  IF ~msg.ok THEN Outcome(msg, user)
             ELSE LET ver == Friend_verify(friend, enc_msg)
                  IN  IF ~ver.ok THEN Outcome(ver, user)
                      ELSE LET message == Message(enc_msg.id, enc_msg.source_id,
                                                  enc_msg.target_id, msg.val,
                                                  enc_msg.created_at)
                           IN  Outcome(Ok(NoVal),
                                   [user EXCEPT !.friends[enc_msg.source_id] =
                                        Friend_add_message(friend, message)])

(* reject: what private_decrypt draws in decrypt. *)
receive_message(user, enc_msg, reject) ==
    IF enc_msg.target_id # user.id
    THEN Outcome(Err("UnknownMessage"), user)
    ELSE IF enc_msg.source_id \notin DOMAIN user.friends
    THEN Outcome(Err("NoSuchFriend"), user)
    ELSE LET friend == user.friends[enc_msg.source_id]
             ver == Friend_verify(friend, enc_msg)
         IN  IF ~ver.ok THEN Outcome(ver, user)
             ELSE LET msg == decrypt(user.enc_key, enc_msg.enc_content, reject)
                  IN  IF ~msg.ok THEN Outcome(msg, user)
                      ELSE LET message == Message(enc_msg.id, enc_msg.source_id,
                                                  enc_msg.target_id, msg.val,
                                                  enc_msg.created_at)
                           IN  Outcome(Ok(NoVal),
                                   [user EXCEPT !.friends[enc_msg.source_id] =
                                        Friend_add_message(friend, message)])

to_friend_full(user) ==
    Ok(Friend(user.id, user.nickname, user.enc_key, user.sig_key, <<>>))

to_friend(user) ==
    LET enc_key == to_public(user.enc_key)
        sig_key == to_verify(user.sig_key)
    IN  IF ~enc_key.ok THEN enc_key
        ELSE IF ~sig_key.ok THEN sig_key
        ELSE Ok(Friend(user.id, user.nickname, enc_key.val, sig_key.val, <<>>))

(***************************************************************************)
(* The identity machine: NUsers users, each made by User::new; wire is the *)
(* last EncryptedMessage handed to the relay; last is the last call, its   *)
(* result and the caller's state before it.                                *)
(***************************************************************************)
UserIds == 1..NUsers
(* What a create_message call draws: the random message id, the clock   *)
(* reading and the random padding.                                        *)
Draws == {[uuid |-> 1, now |-> 20, nonce |-> 1], [uuid |-> 2, now |-> 10, nonce |-> 2]}

Nick(u) == CASE u = 1 -> "ann" [] u = 2 -> "bo" [] OTHER -> "cy"

NoMsg == EncryptedMessage(0, 0, 0, NoVal, 0, NoVal)

MsgTexts == {Txt(<<97>>), Txt(<<97, 98>>)}

UCall(op, u, fid, arg, res, pre) ==
    [op |-> op, u |-> u, fid |-> fid, arg |-> arg, res |-> res, pre |-> pre]

NoUCall == UCall("none", 0, 0, NoVal, Err(""), NoVal)

UInit ==
    /\ users = [u \in UserIds |-> User_new(Nick(u), u, 2 * u - 1, 2 * u).val]
    /\ wire = NoMsg
    /\ last = NoUCall

(* An exchange blob as a peer with PEM text in it would write it. *)
PemBlob(user) ==
    b64_encode(FriendJson(user.id, user.nickname,
                          Pem(user.enc_key.public), Pem(user.sig_key.public)))

(* A blob that claims the first user's id for the last user's keys:        *)
(* from_string does not tie an id to the keys beside it.                   *)
ImpostorBlob ==
    PemBlob([users[NUsers] EXCEPT !.id = users[1].id, !.nickname = "mal"])

Blobs ==
    {Friend_to_string(to_friend(users[v]).val).val : v \in UserIds}
        \cup {PemBlob(users[v]) : v \in UserIds}
        \cup {ImpostorBlob}
        \cup {PemBlob([users[v] EXCEPT !.id = EmptyId]) : v \in UserIds}
        \cup {b64_encode(Txt(<<97>>)), Txt(<<SP>>)}

FromString ==
    \E msg \in Blobs :
        /\ last = NoUCall
        /\ UNCHANGED <<kvars, rvars, hvars>>
        /\ last' = UCall("from_string", 0, 0, msg, Friend_from_string(msg), NoVal)
        /\ UNCHANGED <<users, wire>>

(* The Friends a user is handed by its peers: a peer's to_friend, or a    *)
(* decoded blob.                                                           *)
OfferedFriends ==
    {to_friend(users[v]).val : v \in UserIds}
        \cup {Friend_from_string(b).val : b \in {c \in Blobs : Friend_from_string(c).ok}}

(* The friend entries held by all users together. *)
RECURSIVE Entries(_)
Entries(n) ==
    IF n = 0 THEN 0 ELSE Cardinality(DOMAIN users[n].friends) + Entries(n - 1)

(* Any user may be handed any offered Friend, its own identity included.   *)
(* The model stops adding entries at MaxFriends; a call that adds none is  *)
(* always possible.                                                        *)
AddFriend ==
    \E u \in UserIds, friend \in OfferedFriends :
        LET out == add_friend(users[u], friend)
        IN  /\ friend.id \in DOMAIN users[u].friends \/ Entries(NUsers) < MaxFriends
            /\ last = NoUCall
            /\ UNCHANGED <<kvars, rvars, hvars>>
            /\ users' = [users EXCEPT ![u] = out.user]
            /\ last' = UCall("add_friend", u, friend.id, friend, out.res, users[u])
            /\ UNCHANGED wire

(* The compositions tried: each text with one draw. *)
Compositions ==
    {c \in MsgTexts \X Draws : Len(c[1].s) = c[2].uuid}
        \cup ({LongPlain} \X {d \in Draws : d.uuid = 1})

CreateMessage ==
    \E u \in UserIds, friend_id \in UserIds, c \in Compositions :
        LET msg == c[1]
            d == c[2]
            res == create_message(users[u], friend_id, msg, d.nonce, d.uuid, d.now)
        IN  /\ last = NoUCall
            /\ UNCHANGED <<kvars, rvars, hvars>>
            /\ wire' = IF res.ok THEN res.val ELSE wire
            /\ last' = UCall("create_message", u, friend_id, msg, res, users[u])
            /\ UNCHANGED users

(* What the untrusted relay may deliver for the message it was handed. *)
FlipByte(text) == b64_encode([k |-> "raw", of |-> text])

(* Among them the bytes of blocks of the sender's signing key, taken as    *)
(* text: the signature itself, and a block over bytes that are not UTF-8.  *)
AltContents(m) ==
    {FlipByte(m.enc_content), Txt(<<97>>)}
        \cup {encrypt(users[v].enc_key, Txt(<<98>>), 1).val : v \in UserIds}
        \cup {b64_decode(m.sig).val,
              private_encrypt(users[m.source_id].sig_key.private, NotUtf8).val}

Deliveries(m) ==
    {m} \cup {[m EXCEPT !.enc_content = c] : c \in AltContents(m)}
        \cup {[m EXCEPT !.target_id = t] : t \in UserIds}
        \cup {[m EXCEPT !.source_id = s] : s \in UserIds}
        \cup {[m EXCEPT !.sig = FlipByte(m.sig)]}

ReceiveMessage ==
    /\ wire # NoMsg
    /\ last = NoUCall
    /\ UNCHANGED <<kvars, rvars, hvars>>
    /\ \E u \in UserIds, enc_msg \in Deliveries(wire), reject \in Rejections :
        LET out == receive_message(users[u], enc_msg, reject)
        IN  /\ users' = [users EXCEPT ![u] = out.user]
            /\ last' = UCall("receive_message", u, enc_msg.source_id, enc_msg,
                             out.res, users[u])
            /\ UNCHANGED wire

(* The caller takes the result; the next call can be made. *)
UReturn ==
    /\ last # NoUCall
    /\ last' = NoUCall
    /\ UNCHANGED <<users, wire, cur, klast, rvars, hvars>>

Next ==
    \/ FromString
    \/ AddFriend
    \/ CreateMessage
    \/ ReceiveMessage
    \/ UReturn

(***************************************************************************)
(* The relay transport loop (src/src/connection.rs).  A text of the        *)
(* transport is a sequence of pieces: a word, or "NL" for the line feed.   *)
(* pc is the worker's position in run; queue and senders are the mpsc      *)
(* channel start makes; peer is what the relay has done to the connection  *)
(* ("open", "closed": it sent all it had and shut its side, "reset": the   *)
(* connection is broken); inbound is what it sent and the worker has not   *)
(* read.  enq and got are histories: every message sent into the channel,  *)
(* every text a read returned.                                             *)
(***************************************************************************)
NL == "NL"

(* serde_json::to_string of an EncryptedMessage, and from_str back. *)
MessageJson(message) == [k |-> "msgjson", msg |-> message]

(* The user messages are composed as, and the messages sent. *)
Composer == add_friend(users[1], to_friend(users[NUsers]).val).user

OutMsg(i) == create_message(Composer, users[NUsers].id, Txt(<<97>>), 1, i, 30 - i).val

(* The one payload the relay sends in the model: a message for user 1. *)
InMsg ==
    create_message(add_friend(users[NUsers], to_friend(users[1]).val).user,
                   users[1].id, Txt(<<98>>), 1, 9, 5).val

from_str(line) ==
    IF line = <<"json">> THEN Ok(InMsg) ELSE Err("JsonError")

(* What the relay sends over the life of a connection. *)
Scripts ==
    {<<"message", NL, "json">>,
     <<"bogus", NL, "json">>,
     <<"users", NL, "json", NL, "message", NL, "json">>,
     <<"message", NL, "bad">>}

IsUtf8(text) == \A i \in 1..Len(text) : text[i] # "bad"

(* str::split("\n"): the pieces between line feeds; one empty component   *)
(* for the empty text.                                                     *)
RECURSIVE split(_)
split(text) ==
    LET nl == {i \in 1..Len(text) : text[i] = NL}
    IN  IF nl = {} THEN <<text>>
        ELSE <<SubSeq(text, 1, Min(nl) - 1)>>
                 \o split(SubSeq(text, Min(nl) + 1, Len(text)))

(* Receiver::try_recv. *)
try_recv_keep(q, n) ==
    IF q # <<>> THEN [kind |-> "Ok", message |-> Head(q), rest |-> q]
    ELSE IF n = 0 THEN [kind |-> "Disconnected", message |-> NoMsg, rest |-> q]
    ELSE [kind |-> "Empty", message |-> NoMsg, rest |-> q]

(* A try_recv that reports Disconnected before it looks at the queue. *)
try_recv_hasty(q, n) ==
    IF n = 0 THEN [kind |-> "Disconnected", message |-> NoMsg, rest |-> q]
    ELSE IF q # <<>> THEN [kind |-> "Ok", message |-> Head(q), rest |-> Tail(q)]
    ELSE [kind |-> "Empty", message |-> NoMsg, rest |-> q]

try_recv(q, n) ==
    IF q # <<>> THEN [kind |-> "Ok", message |-> Head(q), rest |-> Tail(q)]
    ELSE IF n = 0 THEN [kind |-> "Disconnected", message |-> NoMsg, rest |-> q]
    ELSE [kind |-> "Empty", message |-> NoMsg, rest |-> q]

(* The request send_message writes: "send\n" and the JSON, no line feed   *)
(* after it.  complete: whether write took all its bytes.                  *)
Request(message, complete) ==
    [directive |-> "send", json |-> MessageJson(message), complete |-> complete]

(* peer_state: write fails on a broken connection; otherwise it takes     *)
(* all the bytes or, when told so, only the first of them.                 *)
send_message(peer_state, message, complete) ==
    IF peer_state = "reset" THEN Err("IoError")
    ELSE Ok(Request(message, complete))

recv_users(user, lines) == Outcome(Ok(NoVal), user)

(* user.lock() is taken for the one receive_message call.  It is the only *)
(* place the Mutex around the shared User is locked, and no action calls   *)
(* it: run drops the components it read, and client.rs::run composes       *)
(* nothing.  The Mutex therefore has no holder in any state of the model.  *)
recv_encrypted_message(user, message, reject) ==
    LET parsed == from_str(message)
    IN  IF ~parsed.ok THEN Outcome(parsed, user)
        ELSE receive_message(user, parsed.val, reject)

recv_message(user, full_message, reject) ==
    IF Len(full_message) = 0 THEN Outcome(Err("Panic"), user)
    ELSE IF full_message[1] = <<"message">>
    THEN IF Len(full_message) < 2 THEN Outcome(Err("Panic"), user)
         ELSE recv_encrypted_message(user, full_message[2], reject)
    ELSE IF full_message[1] = <<"users">>
    THEN recv_users(user, Tail(full_message))
    ELSE Outcome(Err("UnknownDirective"), user)

(* The end of an iteration of run: components is dropped and recv_message *)
(* is not called, so the records handled are those handled before.         *)
end_of_iteration(comps, done) == done

NoResult == [ok |-> FALSE, val |-> NoVal, err |-> "running"]

RelayInit ==
    /\ pc = "Connecting"
    /\ queue = <<>>
    /\ senders = 0
    /\ enq = <<>>
    /\ outgoing = NoMsg
    /\ written = <<>>
    /\ peer = "open"
    /\ script = <<>>
    /\ inbound = <<>>
    /\ readbuf = <<>>
    /\ got = <<>>
    /\ handled = <<>>
    /\ result = NoResult
    /\ seen = "none"

(* start: connect fails and start returns the error, or the worker is     *)
(* spawned and the caller gets the one Sender.                             *)
Start ==
    /\ pc = "Connecting"
    /\ \E connected \in BOOLEAN :
        IF connected
        THEN /\ pc' = "poll"
             /\ senders' = 1
             /\ \E sc \in Scripts : script' = sc
             /\ UNCHANGED seen
        ELSE /\ pc' = "Failed"
             /\ seen' = "ConnectError"
             /\ UNCHANGED <<senders, script>>
    /\ UNCHANGED <<queue, enq, outgoing, written, peer, inbound, readbuf, got,
                   handled, result>>
    /\ UNCHANGED <<kvars, uvars, hvars>>

(* run, line 31: recv.try_recv(). *)
Poll ==
    /\ pc = "poll"
    /\ LET r == try_recv(queue, senders)
       IN  /\ queue' = r.rest
           /\ outgoing' = r.message
           /\ pc' = CASE r.kind = "Ok" -> "write"
                      [] r.kind = "Disconnected" -> "Terminated"
                      [] OTHER -> "read"
           /\ result' = IF r.kind = "Disconnected" THEN Ok(NoVal) ELSE result
    /\ UNCHANGED <<senders, enq, written, peer, script, inbound, readbuf, got,
                   handled, seen>>
    /\ UNCHANGED <<kvars, uvars, hvars>>

(* run, line 32: send_message(&mut stream, message)?. *)
Write ==
    /\ pc = "write"
    /\ \E complete \in BOOLEAN :
        LET r == send_message(peer, outgoing, complete)
        IN  IF r.ok
            THEN /\ written' = Append(written, r.val)
                 /\ pc' = "read"
                 /\ UNCHANGED result
            ELSE /\ pc' = "Terminated"
                 /\ result' = r
                 /\ UNCHANGED written
    /\ outgoing' = NoMsg
    /\ UNCHANGED <<queue, senders, enq, peer, script, inbound, readbuf, got,
                   handled, seen>>
    /\ UNCHANGED <<kvars, uvars, hvars>>

(* run, line 39, read_to_string: bytes have arrived; it takes them and    *)
(* reads on.                                                               *)
ReadData ==
    /\ pc = "read"
    /\ inbound # <<>>
    /\ peer # "reset"
    /\ readbuf' = readbuf \o inbound
    /\ inbound' = <<>>
    /\ UNCHANGED <<pc, queue, senders, enq, outgoing, written, peer, script, got,
                   handled, result, seen>>
    /\ UNCHANGED <<kvars, uvars, hvars>>

(* read_to_string: no byte within the read timeout connect set; the read  *)
(* fails and with it run.                                                  *)
ReadTimeout ==
    /\ pc = "read"
    /\ inbound = <<>>
    /\ peer = "open"
    /\ pc' = "Terminated"
    /\ result' = Err("IoError")
    /\ readbuf' = <<>>
    /\ UNCHANGED <<queue, senders, enq, outgoing, written, peer, script, inbound,
                   got, handled, seen>>
    /\ UNCHANGED <<kvars, uvars, hvars>>

(* read_to_string: the connection is broken. *)
ReadError ==
    /\ pc = "read"
    /\ peer = "reset"
    /\ pc' = "Terminated"
    /\ result' = Err("IoError")
    /\ readbuf' = <<>>
    /\ UNCHANGED <<queue, senders, enq, outgoing, written, peer, script, inbound,
                   got, handled, seen>>
    /\ UNCHANGED <<kvars, uvars, hvars>>

(* read_to_string meets the end of the stream: it fails when the bytes    *)
(* are not UTF-8, and otherwise returns; line 42 splits the text and the   *)
(* iteration ends.                                                         *)
ReadEof ==
    /\ pc = "read"
    /\ inbound = <<>>
    /\ peer = "closed"
    /\ IF IsUtf8(readbuf)
       THEN LET components == split(readbuf)
            IN  /\ got' = got \o readbuf
                /\ handled' = end_of_iteration(components, handled)
                /\ pc' = "poll"
                /\ UNCHANGED result
       ELSE /\ pc' = "Terminated"
            /\ result' = Err("IoError")
            /\ UNCHANGED <<got, handled>>
    /\ readbuf' = <<>>
    /\ UNCHANGED <<queue, senders, enq, outgoing, written, peer, script, inbound,
                   seen>>
    /\ UNCHANGED <<kvars, uvars, hvars>>

(* The relay sends the next pieces of its script. *)
PeerSend ==
    /\ pc \in {"poll", "write", "read"}
    /\ peer = "open"
    /\ script # <<>>
    /\ \E n \in 1..Len(script) :
        /\ inbound' = inbound \o SubSeq(script, 1, n)
        /\ script' = SubSeq(script, n + 1, Len(script))
    /\ UNCHANGED <<pc, queue, senders, enq, outgoing, written, peer, readbuf, got,
                   handled, result, seen>>
    /\ UNCHANGED <<kvars, uvars, hvars>>

(* The relay shuts its side of the connection, or the connection breaks. *)
PeerClose ==
    /\ pc \in {"poll", "write", "read"}
    /\ peer # "reset"
    /\ \E p \in {"closed", "reset"} : p # peer /\ peer' = p
    /\ UNCHANGED <<pc, queue, senders, enq, outgoing, written, script, inbound,
                   readbuf, got, handled, result, seen>>
    /\ UNCHANGED <<kvars, uvars, hvars>>

(* Sender::send on the Sender start returned: the message goes into the   *)
(* channel; the call fails once run has returned and dropped the Receiver. *)
(* At most MaxQueue messages are sent.                                     *)
FgSend ==
    /\ senders > 0
    /\ Len(enq) < MaxQueue
    /\ LET message == OutMsg(Len(enq) + 1)
       IN  IF pc = "Terminated"
           THEN /\ seen' = "SendError"
                /\ UNCHANGED <<queue, enq>>
           ELSE /\ queue' = Append(queue, message)
                /\ enq' = Append(enq, message)
                /\ UNCHANGED seen
    /\ UNCHANGED <<pc, senders, outgoing, written, peer, script, inbound, readbuf,
                   got, handled, result>>
    /\ UNCHANGED <<kvars, uvars, hvars>>

(* The Sender is dropped. *)
FgDrop ==
    /\ senders > 0
    /\ senders' = senders - 1
    /\ UNCHANGED <<pc, queue, enq, outgoing, written, peer, script, inbound, readbuf,
                   got, handled, result, seen>>
    /\ UNCHANGED <<kvars, uvars, hvars>>

Worker == Poll \/ Write \/ ReadData \/ ReadTimeout \/ ReadError \/ ReadEof

RelayNext ==
    \/ Start
    \/ Poll
    \/ Write
    \/ ReadData
    \/ ReadTimeout
    \/ ReadError
    \/ ReadEof
    \/ PeerSend
    \/ PeerClose
    \/ FgSend
    \/ FgDrop

(***************************************************************************)
(* A Friend's message history (src/src/client/friend.rs): book is one      *)
(* Friend, shown the last print_messages call: the history before it and   *)
(* the lines it printed.  A message's id is its place in the order of      *)
(* arrival.                                                                *)
(***************************************************************************)
(* println!("{}|{}: {}", message.id, message.created_at, message.content) *)
Line(m) == [id |-> m.id, created_at |-> m.created_at, content |-> m.content]

(* slice::sort_by with a.created_at.cmp(&b.created_at): a stable sort.    *)
(* place(sorted, x): x put behind every element that does not compare     *)
(* greater than it.                                                        *)
place(sorted, x) ==
    LET n == Cardinality({i \in 1..Len(sorted) :
                             sorted[i].created_at <= x.created_at})
    IN  SubSeq(sorted, 1, n) \o <<x>> \o SubSeq(sorted, n + 1, Len(sorted))

RECURSIVE sort_by(_)
sort_by(v) ==
    IF v = <<>> THEN <<>>
    ELSE place(sort_by(SubSeq(v, 1, Len(v) - 1)), v[Len(v)])

(* A print_messages that iterates the history as stored. *)
print_messages_unsorted(f) ==
    [friend |-> f, lines |-> [i \in 1..Len(f.messages) |-> Line(f.messages[i])]]

(* The history is sorted in place, then every message is printed. *)
print_messages(f) ==
    LET sorted == sort_by(f.messages)
    IN  [friend |-> [f EXCEPT !.messages = sorted],
         lines |-> [i \in 1..Len(sorted) |-> Line(sorted[i])]]

NoShown == [pre |-> <<>>, lines |-> <<>>, called |-> FALSE]

HistInit ==
    /\ book = to_friend(users[NUsers]).val
    /\ shown = NoShown

AddMessage ==
    /\ Len(book.messages) < MaxHist
    /\ \E created_at \in 1..MaxTime :
        book' = Friend_add_message(book,
                      Message(Len(book.messages) + 1, book.id, users[1].id,
                              Txt(<<97>>), created_at))
    /\ shown' = NoShown
    /\ UNCHANGED <<kvars, uvars, rvars>>

PrintMessages ==
    /\ LET out == print_messages(book)
       IN  /\ book' = out.friend
           /\ shown' = [pre |-> book.messages, lines |-> out.lines, called |-> TRUE]
    /\ UNCHANGED <<kvars, uvars, rvars>>

FriendNext ==
    \/ AddMessage
    \/ PrintMessages

(***************************************************************************)
(* Specifications.  The worker is a thread of its own: it takes its next   *)
(* step whenever it has one.                                               *)
(***************************************************************************)
Init == KInit /\ UInit /\ RelayInit /\ HistInit

Spec == Init /\ [][Next]_vars

SpecKeyPair == Init /\ [][KeyPairNext]_vars

SpecRelay == Init /\ [][RelayNext]_vars

SpecRelayFair == Init /\ [][RelayNext]_vars /\ WF_vars(Worker)

SpecFriend == Init /\ [][FriendNext]_vars

(***************************************************************************)
(* Claims.                                                                 *)
(***************************************************************************)
FullModes == {"EncryptDecrypt", "VerifySign"}

(* X holds Y's public identity: an entry under Y's id with Y's public keys. *)
HoldsFriend(X, Y) ==
    /\ Y.id \in DOMAIN X.friends
    /\ X.friends[Y.id].id = Y.id
    /\ X.friends[Y.id].enc_key = to_friend(Y).val.enc_key
    /\ X.friends[Y.id].sig_key = to_friend(Y).val.sig_key

SafeMsgTexts == {p \in MsgTexts : InBound(p) /\ NoTrailing(p)}

(* C1 (stated as claimed; the code violates it): when A and B hold each    *)
(* other's to_friend and B receives A.create_message(B.id, P) for a        *)
(* plaintext P within the size bound and without trailing whitespace or    *)
(* NUL, receive_message succeeds and appends to the history of friend A    *)
(* inside B exactly one Message with content P and the id, source_id,      *)
(* target_id and created_at of the wire message.                           *)
C1_EndToEndDelivery ==
    last.op = "receive_message" =>
        \A a \in UserIds, P \in SafeMsgTexts, d \in Draws :
            LET A == users[a]
                B == last.pre
                sent == create_message(A, B.id, P, d.nonce, d.uuid, d.now)
            IN  (/\ HoldsFriend(A, B)
                 /\ HoldsFriend(B, A)
                 /\ sent.ok
                 /\ last.arg = sent.val)
                => /\ last.res.ok
                   /\ users[last.u].friends[A.id].messages =
                        Append(B.friends[A.id].messages,
                               Message(sent.val.id, A.id, B.id, P, sent.val.created_at))

(* C2 (stated as claimed; the code violates it): for every message M and   *)
(* every key K generated in VerifySign mode, verify(M, K.sign(M)) succeeds *)
(* when called on K and when called on K.to_verify().                      *)
C2_SignatureCompleteness ==
    klast.op = "verify" =>
        \A K \in FullSigKeys :
            (/\ klast.key \in {K, to_verify(K).val}
             /\ klast.a2 = sign(K, klast.a1).val)
            => klast.res.ok

(* What the public key of kp recovers from the signature text sig. *)
Recovered(kp, sig) ==
    LET key == can_verify(kp)
        s == b64_decode(sig)
    IN  IF key.ok /\ s.ok THEN public_decrypt(key.key, s.val) ELSE Err("none")

(* C3: verify(M, K.sign(M')) returns an error for every VerifySign key K   *)
(* and all messages M' # M, and verify succeeds only when the value the    *)
(* public key recovers from the signature is the digest of the message.    *)
C3_SignatureSoundness ==
    klast.op = "verify" =>
        /\ \A K \in FullSigKeys, m2 \in VerifyMsgs :
              (m2 # klast.a1 /\ klast.a2 = sign(K, m2).val) => ~klast.res.ok
        /\ klast.res.ok =>
              /\ Recovered(klast.key, klast.a2).ok
              /\ Recovered(klast.key, klast.a2).val = digest(klast.a1)

(* C3 witness: verify was called on K with a message and K's signature of  *)
(* another message, and returned an error.                                 *)
C3_Witness ==
    /\ klast.op = "verify"
    /\ klast.key \in FullSigKeys
    /\ \E m2 \in VerifyMsgs : m2 # klast.a1 /\ klast.a2 = sign(klast.key, m2).val
    /\ ~klast.res.ok

(* C4 (stated as claimed; the code violates it): a valid EncryptedMessage  *)
(* for the receiver from a known friend whose enc_content was altered is   *)
(* rejected by receive_message with VerifyError, and no Message is added.  *)
C4_TamperedRejected ==
    last.op = "receive_message" =>
        \A a \in UserIds, P \in MsgTexts, d \in Draws :
            LET A == users[a]
                B == last.pre
                sent == create_message(A, B.id, P, d.nonce, d.uuid, d.now)
            IN  (/\ HoldsFriend(A, B)
                 /\ HoldsFriend(B, A)
                 /\ sent.ok
                 /\ last.arg.enc_content # sent.val.enc_content
                 /\ last.arg = [sent.val EXCEPT !.enc_content = last.arg.enc_content])
                => /\ ~last.res.ok
                   /\ last.res.err = "VerifyError"
                   /\ users[last.u] = B

(* C5: receive_message on a message whose target_id is not the receiver's  *)
(* id fails with UnknownMessage and leaves the receiving user (id, keys,   *)
(* friend map, every history) as it was.                                   *)
C5_MisaddressedRejected ==
    (last.op = "receive_message" /\ last.arg.target_id # last.pre.id) =>
        /\ ~last.res.ok
        /\ last.res.err = "UnknownMessage"
        /\ users[last.u] = last.pre

(* C5 witness: a message from a known friend, addressed to another user,   *)
(* was rejected with UnknownMessage.                                       *)
C5_Witness ==
    /\ last.op = "receive_message"
    /\ last.arg.target_id # last.pre.id
    /\ last.arg.source_id \in DOMAIN last.pre.friends
    /\ last.res.err = "UnknownMessage"

Permits(op, mode) ==
    CASE op = "encrypt" -> mode \in {"Encrypt", "EncryptDecrypt"}
      [] op = "decrypt" -> mode = "EncryptDecrypt"
      [] op = "sign" -> mode = "VerifySign"
      [] op = "verify" -> mode \in {"Verify", "VerifySign"}

GatedOps == {"encrypt", "decrypt", "sign", "verify"}

(* C6: each of encrypt, decrypt, sign, verify passes its mode check iff    *)
(* the key's mode permits it, and otherwise fails with ModeError (not by   *)
(* touching absent key material).                                          *)
C6_CapabilityGates ==
    klast.op \in GatedOps =>
        IF Permits(klast.op, klast.key.mode)
        THEN klast.res.err \notin {"ModeError", "Panic"}
        ELSE ~klast.res.ok /\ klast.res.err = "ModeError"

(* C6 witness: decrypt on an Encrypt key without private material failed   *)
(* with ModeError.                                                         *)
C6_Witness ==
    /\ klast.op = "decrypt"
    /\ klast.key.mode = "Encrypt"
    /\ klast.key.private = None
    /\ klast.res.err = "ModeError"

(* C7 (stated as claimed; the code violates it): every KeyPair obtained by *)
(* generate, from_pub_pem, to_public, to_verify has public material, and   *)
(* has private material iff its mode is EncryptDecrypt or VerifySign.      *)
C7_KeyPairInvariant ==
    cur # NoKeyPair =>
        /\ cur.public # None
        /\ (cur.private # None <=> cur.mode \in FullModes)

(* C8: to_public succeeds only on a key that can encrypt and yields an     *)
(* Encrypt key without private material; to_verify succeeds only on a key  *)
(* that can verify and yields a Verify key without private material;       *)
(* from_pub_pem fails for EncryptDecrypt and VerifySign; nothing derived    *)
(* from a key without private material, or loaded from text, has private   *)
(* material or a full mode.                                                *)
C8_DowngradeOnly ==
    /\ (klast.op = "to_public" /\ klast.res.ok) =>
          /\ klast.key.mode \in {"Encrypt", "EncryptDecrypt"}
          /\ klast.res.val.mode = "Encrypt"
          /\ klast.res.val.private = None
    /\ (klast.op = "to_verify" /\ klast.res.ok) =>
          /\ klast.key.mode \in {"Verify", "VerifySign"}
          /\ klast.res.val.mode = "Verify"
          /\ klast.res.val.private = None
    /\ (klast.op = "from_pub_pem" /\ klast.mode \in FullModes) => ~klast.res.ok
    /\ (klast.op \in {"to_public", "to_verify", "from_pub_pem"}
            /\ klast.key.private = None /\ klast.res.ok) =>
          /\ klast.res.val.private = None
          /\ klast.res.val.mode \notin FullModes

(* C8 witness: to_public succeeded on a full EncryptDecrypt key. *)
C8_Witness ==
    /\ klast.op = "to_public"
    /\ klast.res.ok
    /\ klast.key.mode = "EncryptDecrypt"
    /\ klast.key.private # None

SafePlaintexts == {p \in Plaintexts : InBound(p) /\ NoTrailing(p)}

(* C9 (stated as claimed; the code violates it): for every EncryptDecrypt  *)
(* key K and every plaintext P within the size bound without trailing      *)
(* whitespace or NUL (the empty one and those beginning with whitespace    *)
(* included), K.decrypt(K.encrypt(P)) = P and                              *)
(* K.decrypt(K.to_public().encrypt(P)) = P.                                *)
C9_EncryptionRoundTrip ==
    (klast.op = "decrypt" /\ klast.key \in FullEncKeys) =>
        \A P \in SafePlaintexts, r \in Nonces,
           e \in {klast.key, to_public(klast.key).val} :
            klast.a1 = encrypt(e, P, r).val
                => klast.res.ok /\ klast.res.val = P

(* C10 (stated as claimed; the code violates it): for every user U,        *)
(* Friend::from_string(U.to_friend().to_string()) succeeds and yields a    *)
(* Friend with U's id and nickname, an Encrypt key and a Verify key with   *)
(* U's public materials, and an empty history.                             *)
C10_FriendRoundTrip ==
    last.op = "from_string" =>
        \A v \in UserIds :
            last.arg = Friend_to_string(to_friend(users[v]).val).val
                => /\ last.res.ok
                   /\ last.res.val =
                        Friend(users[v].id, users[v].nickname,
                               KeyPair(users[v].enc_key.public, None, "Encrypt"),
                               KeyPair(users[v].sig_key.public, None, "Verify"),
                               <<>>)

(* C11: add_friend(f) fails with DuplicateFriend when f.id is already in   *)
(* the friend map and then changes nothing; otherwise it inserts f under   *)
(* f.id and leaves every other entry and every other user alone.  Across   *)
(* every step an identifier once present stays present, is the id of its   *)
(* entry, and keeps the nickname and keys of the first Friend added.       *)
C11_AddFriendContract ==
    [][ /\ (last.op = "none" /\ last'.op = "add_friend") =>
              LET u == last'.u
                  f == last'.arg
              IN  /\ IF f.id \in DOMAIN users[u].friends
                     THEN /\ ~last'.res.ok
                          /\ last'.res.err = "DuplicateFriend"
                          /\ users'[u] = users[u]
                     ELSE /\ last'.res.ok
                          /\ users'[u] = [users[u] EXCEPT !.friends =
                                [i \in DOMAIN users[u].friends \cup {f.id} |->
                                    IF i = f.id THEN f ELSE users[u].friends[i]]]
                  /\ \A v \in UserIds \ {u} : users'[v] = users[v]
        /\ \A u \in UserIds : \A i \in DOMAIN users[u].friends :
              /\ users[u].friends[i].id = i
              /\ i \in DOMAIN users'[u].friends
              /\ users'[u].friends[i].nickname = users[u].friends[i].nickname
              /\ users'[u].friends[i].enc_key = users[u].friends[i].enc_key
              /\ users'[u].friends[i].sig_key = users[u].friends[i].sig_key
      ]_vars

(* C11 witness: a Friend with an id already in the map, but other keys and *)
(* another nickname than the stored entry, was rejected.                   *)
C11_Witness ==
    /\ last.op = "add_friend"
    /\ last.res.err = "DuplicateFriend"
    /\ last.fid \in DOMAIN last.pre.friends
    /\ last.arg.enc_key # last.pre.friends[last.fid].enc_key
    /\ last.arg.nickname # last.pre.friends[last.fid].nickname

PublicOnly(f) ==
    /\ f.enc_key.mode = "Encrypt"
    /\ f.enc_key.private = None
    /\ f.sig_key.mode = "Verify"
    /\ f.sig_key.private = None

(* C12: every Friend made by to_friend or from_string, and every Friend in *)
(* any user's friend map, has an Encrypt key and a Verify key, neither     *)
(* with private material, whatever add_friend, create_message and          *)
(* receive_message calls were made.                                        *)
C12_FriendsPublicOnly ==
    /\ \A v \in UserIds :
          to_friend(users[v]).ok /\ PublicOnly(to_friend(users[v]).val)
    /\ (last.op = "from_string" /\ last.res.ok) => PublicOnly(last.res.val)
    /\ \A u \in UserIds : \A i \in DOMAIN users[u].friends :
          PublicOnly(users[u].friends[i])

(* C12 witness: a user with private keys was added to a peer's friend map  *)
(* through to_friend, and a message was then created for that friend.      *)
C12_Witness ==
    /\ last.op = "create_message"
    /\ last.res.ok
    /\ \E v \in UserIds :
          /\ users[v].id = last.fid
          /\ users[v].enc_key.private # None
          /\ users[last.u].friends[last.fid] = to_friend(users[v]).val

(* C13 (stated as claimed; a plaintext over the size bound refutes it):    *)
(* create_message(friend_id, P) fails with NoSuchFriend when friend_id is  *)
(* not in the friend map; otherwise it returns an EncryptedMessage with    *)
(* the sender's id as source_id, friend_id as target_id, as enc_content    *)
(* the base-64 text of P encrypted with the public material of that        *)
(* friend's encryption key, and as sig the base-64 text of the digest of   *)
(* enc_content (the ciphertext text, not P) encrypted with the sender's    *)
(* private signing material.  The sender is unchanged in both cases.       *)
C13_CreateMessageContract ==
    last.op = "create_message" =>
        LET U == last.pre
            P == last.arg
            m == last.res.val
        IN  /\ users[last.u] = U
            /\ IF last.fid \notin DOMAIN U.friends
               THEN ~last.res.ok /\ last.res.err = "NoSuchFriend"
               ELSE /\ last.res.ok
                    /\ m.source_id = U.id
                    /\ m.target_id = last.fid
                    /\ \E r \in Nonces :
                          m.enc_content = b64_encode(
                              RsaBlock(2, U.friends[last.fid].enc_key.public, P, r))
                    /\ m.sig = b64_encode(
                          RsaBlock(1, U.sig_key.private, digest(m.enc_content), 0))

(* C13 (corrected): create_message(friend_id, P) fails with NoSuchFriend   *)
(* when friend_id is not in the friend map; for a friend in the map and a  *)
(* P of more than KeySize - PKCS1Overhead bytes it fails with the OpenSSL  *)
(* error of encrypt; for a friend in the map and any other P it returns    *)
(* the EncryptedMessage the claim describes.  The sender is unchanged in   *)
(* all three cases.                                                        *)
C13_CreateMessageBounded ==
    last.op = "create_message" =>
        LET U == last.pre
            P == last.arg
            m == last.res.val
        IN  /\ users[last.u] = U
            /\ IF last.fid \notin DOMAIN U.friends
               THEN ~last.res.ok /\ last.res.err = "NoSuchFriend"
               ELSE IF ByteLen(P) > KeySize - PKCS1Overhead
               THEN ~last.res.ok /\ last.res.err = "OpenSSLError"
               ELSE /\ last.res.ok
                    /\ m.source_id = U.id
                    /\ m.target_id = last.fid
                    /\ \E r \in Nonces :
                          m.enc_content = b64_encode(
                              RsaBlock(2, U.friends[last.fid].enc_key.public, P, r))
                    /\ m.sig = b64_encode(
                          RsaBlock(1, U.sig_key.private, digest(m.enc_content), 0))

(* C13 witness: a message was created for a friend in the map, by a       *)
(* sender who also has a friend that a plaintext over the bound was        *)
(* refused for.                                                            *)
C13_Witness ==
    /\ last.op = "create_message"
    /\ last.fid \in DOMAIN last.pre.friends
    /\ last.res.ok
    /\ last.res.val.enc_content # last.arg
    /\ ~create_message(last.pre, last.fid, LongPlain, 1, 1, 20).ok

(* The inbound records of a text, directive line and payload line, each    *)
(* with the outcome recv_message has for it on the shared user.            *)
ExpectedDispatch(text, reject) ==
    LET lines == split(text)
    IN  [i \in 1..(Len(lines) \div 2) |->
            [directive |-> lines[2 * i - 1],
             res |-> recv_message(users[1],
                                  <<lines[2 * i - 1], lines[2 * i]>>, reject).res]]

(* C14 (stated as claimed; the code violates it): at the end of every      *)
(* iteration of the loop, every complete record of the text read so far    *)
(* has been dispatched exactly once, in order, by its directive: message   *)
(* to receive_message, users to a no-op, anything else to an               *)
(* UnknownDirective failure.                                               *)
C14_InboundDispatch ==
    pc = "poll" => \E reject \in Rejections : handled = ExpectedDispatch(got, reject)

(* C15: the messages written to the transport are, in order, the first     *)
(* messages sent into the outbound queue: none twice, none out of order.   *)
C15_OutboundFifo ==
    /\ Len(written) <= Len(enq)
    /\ \A i \in 1..Len(written) :
          /\ written[i].directive = "send"
          /\ written[i].json = MessageJson(enq[i])

(* C15 witness: two different messages were written, one per iteration. *)
C15_Witness ==
    /\ Len(written) = 2
    /\ written[1].json # written[2].json
    /\ Len(enq) = 2

(* C16 (stated as claimed; the code violates it): in a run where the       *)
(* connection stays open, every message sent into the outbound queue is    *)
(* eventually written to the transport.                                    *)
C16_OutboundProgress ==
    [](peer = "open") =>
        \A i \in 1..MaxQueue : [](Len(enq) >= i => <>(Len(written) >= i))

(* C17 (stated as claimed; the code violates it): once every sender is     *)
(* dropped the loop reaches Terminated, and once the connection is closed  *)
(* or broken the loop reaches Terminated.                                  *)
C17_LoopTermination ==
    /\ (pc \in {"poll", "write", "read"} /\ senders = 0) ~> (pc = "Terminated")
    /\ (pc \in {"poll", "write", "read"} /\ peer # "open") ~> (pc = "Terminated")

(* C19 (stated as claimed; the code violates it): when run ends with a     *)
(* read or write error, the caller of start comes to see that error.       *)
C19_ErrorSurfaced ==
    [](pc = "Terminated" /\ ~result.ok => <>(seen = result.err))

(* C20: print_messages prints the messages in non-decreasing created_at    *)
(* order, each stored message exactly once, messages with equal created_at *)
(* in their order of arrival, and the set of stored messages is the same   *)
(* after it, whatever the order in which add_message built the history.    *)
C20_DisplayOrder ==
    shown.called =>
        LET pre == shown.pre
            out == shown.lines
        IN  /\ Len(out) = Len(pre)
            /\ \A i \in 1..Len(pre) :
                  Cardinality({j \in 1..Len(out) : out[j] = Line(pre[i])}) = 1
            /\ \A i, j \in 1..Len(out) :
                  i < j => /\ out[i].created_at <= out[j].created_at
                           /\ (out[i].created_at = out[j].created_at
                                   => out[i].id < out[j].id)
            /\ Len(book.messages) = Len(pre)
            /\ {book.messages[i] : i \in 1..Len(pre)}
                  = {pre[i] : i \in 1..Len(pre)}

(* C20 witness: a history that arrived out of created_at order, with two   *)
(* messages of equal created_at, was printed.                              *)
C20_Witness ==
    /\ shown.called
    /\ \E i, j \in 1..Len(shown.pre) :
          i < j /\ shown.pre[i].created_at > shown.pre[j].created_at
    /\ \E i, j \in 1..Len(shown.pre) :
          i < j /\ shown.pre[i].created_at = shown.pre[j].created_at
    /\ shown.lines # [i \in 1..Len(shown.pre) |-> Line(shown.pre[i])]

(* C21: the outcome of receive_message is that of the first failing check  *)
(* in the order target id, sender lookup, signature verification,          *)
(* decryption: a wrong target_id gives UnknownMessage whatever the sender  *)
(* and the signature; a right target with a sender not in the friend map   *)
(* gives NoSuchFriend whatever the signature and the content; a failed     *)
(* verification gives its own error whatever decryption would give; and    *)
(* the receiver changes only when all four have passed, by one Message     *)
(* appended to the sender's history.                                       *)
C21_CheckOrder ==
    last.op = "receive_message" =>
        LET U == last.pre
            m == last.arg
        IN  IF m.target_id # U.id
            THEN last.res = Err("UnknownMessage") /\ users[last.u] = U
            ELSE IF m.source_id \notin DOMAIN U.friends
            THEN last.res = Err("NoSuchFriend") /\ users[last.u] = U
            ELSE LET ver == verify(U.friends[m.source_id].sig_key,
                                   m.enc_content, m.sig)
                 IN  IF ~ver.ok
                     THEN last.res = ver /\ users[last.u] = U
                     ELSE \E reject \in Rejections :
                            LET dec == decrypt(U.enc_key, m.enc_content, reject)
                            IN  IF ~dec.ok
                                THEN last.res = dec /\ users[last.u] = U
                                ELSE /\ last.res.ok
                                     /\ users[last.u] =
                                          [U EXCEPT !.friends[m.source_id].messages =
                                              Append(@, Message(m.id, m.source_id,
                                                                m.target_id, dec.val,
                                                                m.created_at))]

(* C21 witness: a rightly addressed message from a known sender, whose     *)
(* content fails verification with one error and would fail decryption     *)
(* with another, was rejected with the error of verification.              *)
C21_Witness ==
    /\ last.op = "receive_message"
    /\ last.arg.target_id = last.pre.id
    /\ last.arg.source_id \in DOMAIN last.pre.friends
    /\ \A reject \in Rejections :
          LET dec == decrypt(last.pre.enc_key, last.arg.enc_content, reject)
          IN  ~dec.ok /\ dec.err # last.res.err
    /\ last.res.err = "OpenSSLError"

(* What private_decrypt wrote when decrypt was called on kp with text and  *)
(* the draw reject.                                                        *)
Filled(kp, text, reject) ==
    private_decrypt(can_decrypt(kp).key, b64_decode(text).val, reject).val

(* The bytes of buf up to its last non-zero byte. *)
StripZeros(buf) ==
    LET nz == {i \in 1..Len(buf) : buf[i] # NUL}
    IN  IF nz = {} THEN <<>> ELSE SubSeq(buf, 1, Max(nz))

(* C22 (stated as claimed; the code violates it): for every buffer that    *)
(* private_decrypt fills, decrypt returns the buffer without its trailing  *)
(* zero bytes and then without surrounding whitespace; for a buffer that   *)
(* holds zero bytes only (the empty plaintext) the result is the empty     *)
(* string.                                                                 *)
C22_DecryptTrimming ==
    (klast.op = "decrypt" /\ klast.res.ok) =>
        LET buf == FillBuf(Filled(klast.key, klast.a1, klast.a2)).s
        IN  /\ klast.res.val = Txt(trim(StripZeros(buf)))
            /\ (\A i \in 1..Len(buf) : buf[i] = NUL) => klast.res.val = Txt(<<>>)

(* C23: the outcome of verify(msg, sig) is the same for every sig: the     *)
(* call made returned what the same key and message return with any other  *)
(* signature, and Friend::verify, which passes enc_content and sig on,     *)
(* decides alike for messages that differ only in sig.                     *)
C23_SigIgnored ==
    klast.op = "verify" =>
        \A sig \in Signatures :
            /\ verify(klast.key, klast.a1, sig) = klast.res
            /\ Friend_verify(Friend(1, "ann", NoKeyPair, klast.key, <<>>),
                             EncryptedMessage(1, 1, 2, klast.a1, 10, sig))
                  = klast.res

(* C23 witness: verify was called on a key that can verify with the        *)
(* genuine signature of the message under that key, and returned the       *)
(* error it returns for the empty signature.                               *)
C23_Witness ==
    /\ klast.op = "verify"
    /\ klast.key.mode \in {"Verify", "VerifySign"}
    /\ \E K \in FullSigKeys :
          /\ K.public = klast.key.public
          /\ klast.a2 = sign(K, klast.a1).val
    /\ ~klast.res.ok
    /\ klast.res = verify(klast.key, klast.a1, Txt(<<>>))

(* C24: run returns Ok only with the queue empty and every sender dropped, *)
(* and then every message sent into the queue has been handed to a write,  *)
(* in order; each step of the loop hands at most one message to a write.   *)
C24_NoLossOnCleanShutdown ==
    /\ [](pc = "Terminated" /\ result.ok =>
              /\ queue = <<>>
              /\ senders = 0
              /\ outgoing = NoMsg
              /\ Len(written) = Len(enq)
              /\ \A i \in 1..Len(enq) : written[i].json = MessageJson(enq[i]))
    /\ [][Len(written') <= Len(written) + 1]_vars

(* C24 witness: run returned Ok after two messages had been sent into the  *)
(* queue and both had been written.                                        *)
C24_Witness ==
    /\ pc = "Terminated"
    /\ result.ok
    /\ Len(enq) = 2
    /\ Len(written) = 2

=============================================================================
